---- MODULE Spec2Model ----
(***************************************************************************)
(* Route-network construction and BFS path finding                         *)
(* (Mustee001/main_project, src/core).                                     *)
(*                                                                         *)
(* Conventions                                                             *)
(*  - A Python str is a sequence of one-character strings.                 *)
(*  - A Python dict is a sequence of <<key, value>> pairs in insertion     *)
(*    order (the order dict iteration follows).                            *)
(*  - A coordinate is an integer counting thirds of 10^-COORD_PRECISION,   *)
(*    so that no value lies on a rounding tie of the "%.6f" format.        *)
(*  - A pandas cell is [na |-> BOOLEAN, s |-> str]; na covers NaN, None    *)
(*    and a missing column (row.get returns None).                         *)
(***************************************************************************)
EXTENDS Integers, Sequences, FiniteSets, TLC

\* ------------------------------------------------------------------ bounds
MaxRows  == 3      \* point records in intersections + buildings together
MaxLines == 2      \* line records in road_lines_gdf
MaxNodes == 4      \* nodes of the graphs searched by bfs_shortest_path
MaxEdges == 4      \* add_edge calls that made those graphs
MaxCoord == 2      \* largest |x|, |y| handed to the coordinate key encoder

\* ------------------------------------------------------- program constants
COORD_PRECISION == 6

\* ----------------------------------------------------------------- strings
Abs(x) == IF x < 0 THEN -x ELSE x

Digits == <<"0", "1", "2", "3", "4", "5", "6", "7", "8", "9">>

\* str(n) / "{n}" for a non-negative int
RECURSIVE Str(_)
Str(n) == IF n < 10 THEN <<Digits[n + 1]>>
          ELSE Str(n \div 10) \o <<Digits[(n % 10) + 1]>>

IsSpace(c) == c = " "

RECURSIVE LStrip(_)
LStrip(s) == IF s # <<>> /\ IsSpace(Head(s)) THEN LStrip(Tail(s)) ELSE s

RECURSIVE RStrip(_)
RStrip(s) == IF s # <<>> /\ IsSpace(s[Len(s)])
             THEN RStrip(SubSeq(s, 1, Len(s) - 1)) ELSE s

\* str.strip()
Strip(s) == RStrip(LStrip(s))

\* pandas cells
NaN == [na |-> TRUE, s |-> <<>>]
Cell(s) == [na |-> FALSE, s |-> s]
notna(c) == ~c.na

\* Optional[int]: node ids are >= 0
None == -1

\* ------------------------------------------------------------------ dicts
DictKeys(d) == {d[i][1] : i \in 1..Len(d)}
DictValues(d) == [i \in 1..Len(d) |-> d[i][2]]
DictHas(d, k) == \E i \in 1..Len(d) : d[i][1] = k
DictIndex(d, k) == CHOOSE i \in 1..Len(d) : d[i][1] = k
\* d[k] for a key that is present
DictAt(d, k) == d[DictIndex(d, k)][2]
\* d.get(k)
DictGet(d, k) == IF DictHas(d, k) THEN DictAt(d, k) ELSE None
\* d[k] = v
DictSet(d, k, v) == IF DictHas(d, k)
                    THEN [d EXCEPT ![DictIndex(d, k)] = <<k, v>>]
                    ELSE Append(d, <<k, v>>)

SeqRange(s) == {s[i] : i \in 1..Len(s)}

\* ------------------------------------------------- coordinate key encoder
\* "{x:.6f}": round to nearest, the sign of a negative input is kept
\* even when the digits are all zero ("-0.000000").
\* At another precision the value x / (3 * 10^6) is rounded to a multiple of
\* 10^-precision: above COORD_PRECISION no value is on a tie; below it the
\* first tie is at |x| = 15 * 10^(5 - precision), beyond the values used.
RECURSIVE Pow10(_)
Pow10(n) == IF n = 0 THEN 1 ELSE 10 * Pow10(n - 1)

FormatFixedAt(x, precision) ==
    [neg |-> x < 0,
     mag |-> IF precision >= COORD_PRECISION
             THEN (Abs(x) * Pow10(precision - COORD_PRECISION) + 1) \div 3
             ELSE LET scale == 3 * Pow10(COORD_PRECISION - precision)
                  IN (Abs(x) + scale \div 2) \div scale]

FormatFixed(x) == FormatFixedAt(x, COORD_PRECISION)

\* f"{x:.{precision}f},{y:.{precision}f}"
CoordsKeyAt(pt, precision) ==
    <<FormatFixedAt(pt[1], precision), FormatFixedAt(pt[2], precision)>>

\* the key at the precision main passes to both builders
CoordsKey(pt) == <<FormatFixed(pt[1]), FormatFixed(pt[2])>>


\* ------------------------------------------------------------ input values
\* Point geometries.  <<0,0>> and <<1,0>> differ but share a key; <<-1,0>>
\* formats as "-0.000000,0.000000"; <<0,2>> differs from <<0,0>> in y only.
PointValues == {<<-1, 0>>, <<0, 0>>, <<1, 0>>, <<0, 2>>}

\* (Name, id) cells of a point record: absent, blank, padded, plain.
RowAttrs == {<<NaN, NaN>>,
             <<Cell(<<" ">>), Cell(<<"b", " ">>)>>,
             <<Cell(<<" ", "A">>), Cell(<<>>)>>,
             <<Cell(<<"a">>), Cell(<<"b">>)>>}

PointRows == {[geometry |-> g, Name |-> a[1], id |-> a[2]] :
                 g \in PointValues, a \in RowAttrs}

SeqsUpTo(S, n) == UNION {[1..k -> S] : k \in 0..n}

VARIABLES pc,
          intersections_gdf, buildings_gdf,   \* arguments of prepare_graph_nodes
          all_graph_nodes_gdf, row_idx,       \* the frame iterated, next row
          node_coords_to_networkx_id, networkx_id_to_details,
          current_networkx_id,
          line_idx, G, noted,                 \* build_network_graph
          start_node, end_node, queue, visited, result,  \* bfs_shortest_path
          enc_in, enc_out,                    \* coordinate key encoder
          identifier, search_by, found,       \* find_networkx_id
          start_id_str, end_id_str, printed   \* find_and_print_path

nodeVars == <<intersections_gdf, buildings_gdf, all_graph_nodes_gdf, row_idx,
              node_coords_to_networkx_id, networkx_id_to_details,
              current_networkx_id>>
graphVars == <<line_idx, G, noted>>
bfsVars == <<start_node, end_node, queue, visited, result>>
encVars == <<enc_in, enc_out>>
queryVars == <<identifier, search_by, found, start_id_str, end_id_str, printed>>
vars == <<pc, nodeVars, graphVars, bfsVars, encVars, queryVars>>

\* ------------------------------------------------------ prepare_graph_nodes
\* DataFrame.drop_duplicates(subset=['geometry']): keep the first row of
\* every geometry, in order.
RECURSIVE DropDuplicates(_, _)
DropDuplicates(rows, seen) ==
    IF rows = <<>> THEN <<>>
    ELSE IF Head(rows).geometry \in seen
         THEN DropDuplicates(Tail(rows), seen)
         ELSE <<Head(rows)>> \o
              DropDuplicates(Tail(rows), seen \cup {Head(rows).geometry})

\* pd.concat([intersections_gdf, buildings_gdf]).drop_duplicates(...)
CombinedFrame(intersections, buildings) ==
    DropDuplicates(intersections \o buildings, {})

UnnamedPrefix == <<"U","n","n","a","m","e","d","_","N","o","d","e","_","N","X","_">>
QgisIdPrefix == <<"Q","G","I","S","_","I","D","_","N","X","_">>

\* lines 38-43: the name and unique id of a row, given the next id
RowName(row, next) ==
    IF notna(row.Name) THEN Strip(row.Name.s) ELSE UnnamedPrefix \o Str(next)

RowQgisId(row, next) ==
    IF notna(row.id) THEN Strip(row.id.s) ELSE QgisIdPrefix \o Str(next)

\* (variant: line 54 outside the if, every row takes an id)
PrepareRowStepCountsAll(st, row) ==
    LET coords_key == CoordsKey(row.geometry)
    IN IF ~DictHas(st.ids, coords_key)
       THEN [ids |-> DictSet(st.ids, coords_key, st.next),
             details |-> DictSet(st.details, st.next,
                                 [geometry |-> row.geometry,
                                  name |-> RowName(row, st.next),
                                  qgis_id |-> RowQgisId(row, st.next)]),
             next |-> st.next + 1]
       ELSE [st EXCEPT !.next = st.next + 1]

\* (variant: a row whose key is known overwrites the details of its node)
PrepareRowStepLastWins(st, row) ==
    LET coords_key == CoordsKey(row.geometry)
        known == DictHas(st.ids, coords_key)
        networkx_id == IF known THEN DictAt(st.ids, coords_key) ELSE st.next
    IN [ids |-> DictSet(st.ids, coords_key, networkx_id),
        details |-> DictSet(st.details, networkx_id,
                            [geometry |-> row.geometry,
                             name |-> RowName(row, networkx_id),
                             qgis_id |-> RowQgisId(row, networkx_id)]),
        next |-> IF known THEN st.next ELSE st.next + 1]

\* (variant: lines 49-53 outside the if, every row stores its details under
\* the current id)
PrepareRowStepDetailsAlways(st, row) ==
    LET coords_key == CoordsKey(row.geometry)
        details == DictSet(st.details, st.next,
                           [geometry |-> row.geometry,
                            name |-> RowName(row, st.next),
                            qgis_id |-> RowQgisId(row, st.next)])
    IN IF ~DictHas(st.ids, coords_key)
       THEN [ids |-> DictSet(st.ids, coords_key, st.next),
             details |-> details,
             next |-> st.next + 1]
       ELSE [st EXCEPT !.details = details]

\* One iteration of the loop of lines 33-54 on the loop state
\* st = [ids, details, next].
PrepareRowStep(st, row) ==
    LET coords_key == CoordsKey(row.geometry)
        qgis_name == RowName(row, st.next)
        qgis_unique_id == RowQgisId(row, st.next)
    IN IF ~DictHas(st.ids, coords_key)
       THEN [ids |-> DictSet(st.ids, coords_key, st.next),
             details |-> DictSet(st.details, st.next,
                                 [geometry |-> row.geometry,
                                  name |-> qgis_name,
                                  qgis_id |-> qgis_unique_id]),
             next |-> st.next + 1]
       ELSE st

RECURSIVE PrepareLoop(_, _)
PrepareLoop(st, rows) ==
    IF rows = <<>> THEN st
    ELSE PrepareLoop(PrepareRowStep(st, Head(rows)), Tail(rows))

\* The whole function: the pair of mappings it returns.
prepare_graph_nodes(intersections, buildings) ==
    LET frame == CombinedFrame(intersections, buildings)
        st == PrepareLoop([ids |-> <<>>, details |-> <<>>, next |-> 0], frame)
    IN IF Len(frame) = 0 THEN <<(<<>>), (<<>>)>> ELSE <<st.ids, st.details>>


\* ------------------------------------------------------------ nx.Graph
\* nodes: node ids in insertion order; adj[n]: the neighbours of n in the
\* order their edges were first inserted; data[{u, v}]: the attribute dict
\* shared by adj[u][v] and adj[v][u].
EmptyFn == [x \in {} |-> x]

EmptyGraph == [nodes |-> <<>>, adj |-> EmptyFn, data |-> EmptyFn]

InGraph(g, n) == n \in DOMAIN g.adj

add_node(g, n) ==
    IF InGraph(g, n) THEN g
    ELSE [g EXCEPT !.nodes = Append(g.nodes, n),
                   !.adj = (n :> <<>>) @@ g.adj]

RECURSIVE add_nodes_from(_, _)
add_nodes_from(g, ns) ==
    IF ns = <<>> THEN g ELSE add_nodes_from(add_node(g, Head(ns)), Tail(ns))

\* adj[u][v] = datadict: a new key goes last, an existing key keeps its place
AdjPut(nbrs, v) == IF v \in SeqRange(nbrs) THEN nbrs ELSE Append(nbrs, v)

\* (variant: an edge that exists keeps the attributes it has)
add_edge_keep_first(g, u, v, attr) ==
    LET g1 == add_node(add_node(g, u), v)
        a1 == [g1.adj EXCEPT ![u] = AdjPut(g1.adj[u], v)]
        a2 == [a1 EXCEPT ![v] = AdjPut(a1[v], u)]
    IN [g1 EXCEPT !.adj = a2,
                  !.data = g1.data @@ ({u, v} :> attr)]

\* G.add_edge(u, v, **attr): datadict = adj[u].get(v, {}); datadict.update(attr)
add_edge(g, u, v, attr) ==
    LET g1 == add_node(add_node(g, u), v)
        a1 == [g1.adj EXCEPT ![u] = AdjPut(g1.adj[u], v)]
        a2 == [a1 EXCEPT ![v] = AdjPut(a1[v], u)]
    IN [g1 EXCEPT !.adj = a2,
                  !.data = ({u, v} :> attr) @@ g1.data]

has_edge(g, u, v) == {u, v} \in DOMAIN g.data
neighbors(g, n) == g.adj[n]
Edges(g) == DOMAIN g.data

\* ------------------------------------------------------ line record values
LineString(cs) == [type |-> "LineString", coords |-> cs]
MultiLineString(ls) == [type |-> "MultiLineString", geoms |-> ls]

\* two-point lines over the point geometries, and bent lines whose middle
\* vertex is a node coordinate of its own
StraightLines == {LineString(<<a, b>>) : a \in PointValues, b \in PointValues}
BentLines == {LineString(<<a, <<0, 2>>, b>>) : a \in {<<0, 0>>, <<-1, 0>>},
                                                b \in {<<0, 0>>, <<1, 0>>}}
PartLines == {LineString(<<a, b>>) : a \in {<<0, 0>>, <<0, 2>>},
                                      b \in {<<0, 0>>, <<0, 2>>}}
MultiLines == {MultiLineString(<<l1, l2>>) : l1 \in PartLines, l2 \in PartLines}
OtherGeoms == {[type |-> "Point", coords |-> <<(<<0, 0>>)>>]}

LineGeoms == StraightLines \cup BentLines \cup MultiLines \cup OtherGeoms

DescValues == {NaN, Cell(<<" ", "p">>)}

LineRows == {[geometry |-> g, description |-> d] :
                g \in LineGeoms, d \in DescValues}

\* ------------------------------------------------------ build_network_graph
UnnamedPath == <<"u","n","n","a","m","e","d"," ","p","a","t","h">>

\* line 15
LineDescription(row) ==
    IF notna(row.description) THEN row.description.s ELSE UnnamedPath

\* lines 17-22
LinesToProcess(line_geom) ==
    IF line_geom.type = "LineString" THEN <<line_geom>>
    ELSE IF line_geom.type = "MultiLineString" THEN line_geom.geoms
    ELSE <<>>

\* lines 25-32: the node ids of the two ends of a segment
SegmentStart(ids, single_line) ==
    DictGet(ids, CoordsKey(single_line.coords[1]))

SegmentEnd(ids, single_line) ==
    DictGet(ids, CoordsKey(single_line.coords[Len(single_line.coords)]))

EdgeAttr(single_line, line_description) ==
    [geometry |-> single_line, description |-> Strip(line_description)]

\* (variant: line 34 without "u != v")
BuildSegmentNoLoopTest(g, ids, single_line, line_description) ==
    LET u == SegmentStart(ids, single_line)
        v == SegmentEnd(ids, single_line)
    IN IF u # None /\ v # None
       THEN add_edge(g, u, v, EdgeAttr(single_line, line_description))
       ELSE g

\* lines 25-35: one segment
BuildSegment(g, ids, single_line, line_description) ==
    LET u == SegmentStart(ids, single_line)
        v == SegmentEnd(ids, single_line)
    IN IF u # None /\ v # None /\ u # v
       THEN add_edge(g, u, v, EdgeAttr(single_line, line_description))
       ELSE g

RECURSIVE BuildSegments(_, _, _, _)
BuildSegments(g, ids, lines, line_description) ==
    IF lines = <<>> THEN g
    ELSE BuildSegments(BuildSegment(g, ids, Head(lines), line_description),
                       ids, Tail(lines), line_description)

\* lines 13-35: one iteration of the loop over road_lines_gdf
BuildRowStep(g, ids, row) ==
    BuildSegments(g, ids, LinesToProcess(row.geometry), LineDescription(row))

\* (variant: line 11 left out, nodes enter the graph with their edges only)
BuildInitNoNodes(ids) == EmptyGraph

\* lines 8-11
BuildInit(ids) == add_nodes_from(EmptyGraph, DictValues(ids))

RECURSIVE BuildLoop(_, _, _)
BuildLoop(g, ids, rows) ==
    IF rows = <<>> THEN g
    ELSE BuildLoop(BuildRowStep(g, ids, Head(rows)), ids, Tail(rows))

\* The whole function
build_network_graph(road_lines_gdf, ids) ==
    BuildLoop(BuildInit(ids), ids, road_lines_gdf)


\* -------------------------------------------------------- bfs_shortest_path
\* Return values: a list of node ids, or None.
PathResult(path) == [tag |-> "list", items |-> path]
NoneResult == [tag |-> "None", items |-> <<>>]
NotCalled == [tag |-> "not called", items |-> <<>>]

\* (variant: path.append(neighbor) on the one shared list instead of
\* path + [neighbor])
RECURSIVE BfsNeighborsShared(_, _, _)
BfsNeighborsShared(st, nbrs, path) ==
    IF nbrs = <<>> THEN st
    ELSE LET neighbor == Head(nbrs)
         IN IF neighbor \notin st.visited
            THEN BfsNeighborsShared([queue |-> Append(st.queue,
                                           <<neighbor, Append(path, neighbor)>>),
                                     visited |-> st.visited \cup {neighbor}],
                                    Tail(nbrs), Append(path, neighbor))
            ELSE BfsNeighborsShared(st, Tail(nbrs), path)

\* (variant: the neighbours taken from the last stored to the first)
RECURSIVE BfsNeighborsReversed(_, _, _)
BfsNeighborsReversed(st, nbrs, path) ==
    IF nbrs = <<>> THEN st
    ELSE LET neighbor == nbrs[Len(nbrs)]
             rest == SubSeq(nbrs, 1, Len(nbrs) - 1)
         IN IF neighbor \notin st.visited
            THEN BfsNeighborsReversed([queue |-> Append(st.queue,
                                           <<neighbor, Append(path, neighbor)>>),
                                       visited |-> st.visited \cup {neighbor}],
                                      rest, path)
            ELSE BfsNeighborsReversed(st, rest, path)

\* lines 21-24: the for loop over graph.neighbors(current_node) on the
\* loop state st = [queue, visited]
RECURSIVE BfsNeighbors(_, _, _)
BfsNeighbors(st, nbrs, path) ==
    IF nbrs = <<>> THEN st
    ELSE LET neighbor == Head(nbrs)
         IN IF neighbor \notin st.visited
            THEN BfsNeighbors([queue |-> Append(st.queue,
                                           <<neighbor, Append(path, neighbor)>>),
                               visited |-> st.visited \cup {neighbor}],
                              Tail(nbrs), path)
            ELSE BfsNeighbors(st, Tail(nbrs), path)

\* ---------------------------------------------------------------- actions
\* prepare_graph_nodes, lines 18-31
PrepareCall ==
    /\ pc = "start"
    /\ all_graph_nodes_gdf' = CombinedFrame(intersections_gdf, buildings_gdf)
    /\ node_coords_to_networkx_id' = <<>>
    /\ networkx_id_to_details' = <<>>
    /\ current_networkx_id' = 0
    /\ row_idx' = 1
    /\ pc' = IF Len(all_graph_nodes_gdf') = 0 THEN "prepared" ELSE "prepare_loop"
    /\ UNCHANGED <<intersections_gdf, buildings_gdf, graphVars, bfsVars, encVars, queryVars>>

\* prepare_graph_nodes, lines 33-54: one row of the frame
PrepareRow ==
    /\ pc = "prepare_loop"
    /\ row_idx <= Len(all_graph_nodes_gdf)
    /\ LET st == PrepareRowStep([ids |-> node_coords_to_networkx_id,
                                 details |-> networkx_id_to_details,
                                 next |-> current_networkx_id],
                                all_graph_nodes_gdf[row_idx])
       IN /\ node_coords_to_networkx_id' = st.ids
          /\ networkx_id_to_details' = st.details
          /\ current_networkx_id' = st.next
    /\ row_idx' = row_idx + 1
    /\ UNCHANGED <<pc, intersections_gdf, buildings_gdf, all_graph_nodes_gdf,
                   graphVars, bfsVars, encVars, queryVars>>

\* prepare_graph_nodes, lines 56-57
PrepareReturn ==
    /\ pc = "prepare_loop"
    /\ row_idx > Len(all_graph_nodes_gdf)
    /\ pc' = "prepared"
    /\ UNCHANGED <<nodeVars, graphVars, bfsVars, encVars, queryVars>>

\* Bookkeeping of what a run of build_network_graph was asked to do, kept
\* beside the graph: noted.last[{u, v}] is the attribute record of the latest
\* segment whose two ends were found in the mapping on the distinct nodes u
\* and v, noted.writes[{u, v}] counts those segments, noted.dropped counts
\* the segments with an end that was not found or with both ends on one node.
Resolves(ids, pt) == \E i \in 1..Len(ids) : ids[i][1] = CoordsKey(pt)
NodeOf(ids, pt) == ids[CHOOSE i \in 1..Len(ids) : ids[i][1] = CoordsKey(pt)][2]

NothingNoted == [last |-> EmptyFn, writes |-> EmptyFn, dropped |-> 0]

NoteSegment(nt, ids, seg, row) ==
    LET a == seg.coords[1]
        b == seg.coords[Len(seg.coords)]
    IN IF Resolves(ids, a) /\ Resolves(ids, b) /\ NodeOf(ids, a) # NodeOf(ids, b)
       THEN LET e == {NodeOf(ids, a), NodeOf(ids, b)}
                attr == [geometry |-> seg,
                         description |->
                            Strip(IF row.description.na THEN UnnamedPath
                                  ELSE row.description.s)]
            IN [last |-> (e :> attr) @@ nt.last,
                writes |-> (e :> (IF e \in DOMAIN nt.writes
                                  THEN nt.writes[e] + 1 ELSE 1)) @@ nt.writes,
                dropped |-> nt.dropped]
       ELSE [nt EXCEPT !.dropped = nt.dropped + 1]

RECURSIVE NoteSegments(_, _, _, _)
NoteSegments(nt, ids, segs, row) ==
    IF segs = <<>> THEN nt
    ELSE NoteSegments(NoteSegment(nt, ids, Head(segs), row), ids, Tail(segs), row)

NoteRow(nt, ids, row) ==
    NoteSegments(nt, ids,
                 IF row.geometry.type = "LineString" THEN <<row.geometry>>
                 ELSE IF row.geometry.type = "MultiLineString"
                      THEN row.geometry.geoms ELSE <<>>,
                 row)

\* (variant: main without the test of line 16)
BuildCallUnguarded ==
    /\ pc = "prepared"
    /\ G' = BuildInit(node_coords_to_networkx_id)
    /\ line_idx' = 0
    /\ noted' = NothingNoted
    /\ pc' = "build_loop"
    /\ UNCHANGED <<nodeVars, bfsVars, encVars, queryVars>>

\* build_network_graph, lines 8-11 (main calls it only with a non-empty
\* mapping, main_execution_block8.py lines 16-20)
BuildCall ==
    /\ pc = "prepared"
    /\ node_coords_to_networkx_id # <<>>
    /\ G' = BuildInit(node_coords_to_networkx_id)
    /\ line_idx' = 0
    /\ noted' = NothingNoted
    /\ pc' = "build_loop"
    /\ UNCHANGED <<nodeVars, bfsVars, encVars, queryVars>>

\* build_network_graph, lines 13-35: one row of road_lines_gdf
BuildRow ==
    /\ pc = "build_loop"
    /\ line_idx < MaxLines
    /\ \E row \in LineRows :
          /\ G' = BuildRowStep(G, node_coords_to_networkx_id, row)
          /\ noted' = NoteRow(noted, node_coords_to_networkx_id, row)
    /\ line_idx' = line_idx + 1
    /\ UNCHANGED <<pc, nodeVars, bfsVars, encVars, queryVars>>

\* build_network_graph, lines 37-38
BuildReturn ==
    /\ pc = "build_loop"
    /\ pc' = "built"
    /\ UNCHANGED <<nodeVars, graphVars, bfsVars, encVars, queryVars>>

\* (variant: the membership test of line 9 placed before the test of line 7)
BfsCallMembershipFirst ==
    /\ pc = "built"
    /\ \E s \in 0..MaxNodes, e \in 0..MaxNodes :
          /\ start_node' = s
          /\ end_node' = e
          /\ IF ~InGraph(G, s) \/ ~InGraph(G, e)
             THEN /\ result' = NoneResult
                  /\ pc' = "returned"
                  /\ queue' = <<>>
                  /\ visited' = {}
             ELSE IF s = e
             THEN /\ result' = PathResult(<<s>>)
                  /\ pc' = "returned"
                  /\ queue' = <<>>
                  /\ visited' = {}
             ELSE /\ result' = NotCalled
                  /\ pc' = "bfs_loop"
                  /\ queue' = <<(<<s, <<s>> >>)>>
                  /\ visited' = {s}
    /\ UNCHANGED <<nodeVars, graphVars,
                   encVars, queryVars>>

\* bfs_shortest_path, lines 7-13
BfsCall ==
    /\ pc = "built"
    /\ \E s \in 0..MaxNodes, e \in 0..MaxNodes :
          /\ start_node' = s
          /\ end_node' = e
          /\ IF s = e
             THEN /\ result' = PathResult(<<s>>)
                  /\ pc' = "returned"
                  /\ queue' = <<>>
                  /\ visited' = {}
             ELSE IF ~InGraph(G, s) \/ ~InGraph(G, e)
             THEN /\ result' = NoneResult
                  /\ pc' = "returned"
                  /\ queue' = <<>>
                  /\ visited' = {}
             ELSE /\ result' = NotCalled
                  /\ pc' = "bfs_loop"
                  /\ queue' = <<(<<s, <<s>> >>)>>
                  /\ visited' = {s}
    /\ UNCHANGED <<nodeVars, graphVars,
                   encVars, queryVars>>

\* bfs_shortest_path, lines 15-24: one iteration of the while loop
BfsLoopStep ==
    /\ pc = "bfs_loop"
    /\ queue # <<>>
    /\ LET current_node == Head(queue)[1]
           path == Head(queue)[2]
       IN IF current_node = end_node
          THEN /\ result' = PathResult(path)
               /\ pc' = "returned"
               /\ queue' = <<>>
               /\ visited' = {}
          ELSE LET st == BfsNeighbors([queue |-> Tail(queue), visited |-> visited],
                                      neighbors(G, current_node), path)
               IN /\ queue' = st.queue
                  /\ visited' = st.visited
                  /\ UNCHANGED <<pc, result>>
    /\ UNCHANGED <<start_node, end_node, nodeVars, graphVars,
                   encVars, queryVars>>

\* (variant: "while True" in line 15, popleft() raises on the empty deque)
BfsExhaustedRaises ==
    /\ pc = "bfs_loop"
    /\ queue = <<>>
    /\ result' = [tag |-> "IndexError", items |-> <<>>]
    /\ pc' = "returned"
    /\ visited' = {}
    /\ UNCHANGED <<queue, start_node, end_node, nodeVars, graphVars,
                   encVars, queryVars>>

\* bfs_shortest_path, line 25: the queue ran empty
BfsExhausted ==
    /\ pc = "bfs_loop"
    /\ queue = <<>>
    /\ result' = NoneResult
    /\ pc' = "returned"
    /\ visited' = {}
    /\ UNCHANGED <<queue, start_node, end_node, nodeVars, graphVars,
                   encVars, queryVars>>

\* main loop, lines 90-94 and 35: the answer has been reported and the next
\* query starts from the same graph
AnotherPath ==
    /\ pc = "returned"
    /\ pc' = "built"
    /\ start_node' = None
    /\ end_node' = None
    /\ result' = NotCalled
    /\ identifier' = <<>>
    /\ search_by' = "id"
    /\ found' = None
    /\ start_id_str' = <<>>
    /\ end_id_str' = <<>>
    /\ printed' = <<>>
    /\ UNCHANGED <<queue, visited, nodeVars, graphVars, encVars>>

\* --------------------------------------------------------- specifications
NoGraph == /\ line_idx = 0
           /\ G = EmptyGraph
           /\ noted = NothingNoted

NoSearch == /\ start_node = None
            /\ end_node = None
            /\ queue = <<>>
            /\ visited = {}
            /\ result = NotCalled

NoKeys == /\ enc_in = <<>>
          /\ enc_out = <<>>

NoQuery == /\ identifier = <<>>
           /\ search_by = "id"
           /\ found = None
           /\ start_id_str = <<>>
           /\ end_id_str = <<>>
           /\ printed = <<>>

\* prepare_graph_nodes on every pair of frames of at most MaxRows rows
InitNodes ==
    /\ pc = "start"
    /\ \E rows \in SeqsUpTo(PointRows, MaxRows) : \E k \in 0..Len(rows) :
          /\ intersections_gdf = SubSeq(rows, 1, k)
          /\ buildings_gdf = SubSeq(rows, k + 1, Len(rows))
    /\ all_graph_nodes_gdf = <<>>
    /\ row_idx = 1
    /\ node_coords_to_networkx_id = <<>>
    /\ networkx_id_to_details = <<>>
    /\ current_networkx_id = 0
    /\ NoGraph
    /\ NoSearch
    /\ NoKeys
    /\ NoQuery

NextNodes == PrepareCall \/ PrepareRow \/ PrepareReturn

SpecNodes == InitNodes /\ [][NextNodes]_vars

\* build_network_graph on the mapping prepare_graph_nodes returns for a
\* frame of distinct unnamed points
PlainRow(g) == [geometry |-> g, Name |-> NaN, id |-> NaN]

InitGraph ==
    /\ pc = "prepared"
    /\ \E pts \in SeqsUpTo(PointValues, MaxRows) :
          /\ Len(pts) > 0
          /\ \A i, j \in 1..Len(pts) : i # j => pts[i] # pts[j]
          /\ intersections_gdf = [i \in 1..Len(pts) |-> PlainRow(pts[i])]
    /\ buildings_gdf = <<>>
    /\ all_graph_nodes_gdf = CombinedFrame(intersections_gdf, buildings_gdf)
    /\ row_idx = Len(all_graph_nodes_gdf) + 1
    /\ node_coords_to_networkx_id =
          prepare_graph_nodes(intersections_gdf, buildings_gdf)[1]
    /\ networkx_id_to_details =
          prepare_graph_nodes(intersections_gdf, buildings_gdf)[2]
    /\ current_networkx_id = Len(node_coords_to_networkx_id)
    /\ NoGraph
    /\ NoSearch
    /\ NoKeys
    /\ NoQuery

NextGraph == BuildCall \/ BuildRow \/ BuildReturn

SpecGraph == InitGraph /\ [][NextGraph]_vars


\* bfs_shortest_path on the graphs that add_nodes_from and at most MaxEdges
\* calls of add_edge make on the nodes 0..n-1, n <= MaxNodes
PlainAttr == [geometry |-> LineString(<<(<<0, 0>>), (<<0, 2>>)>>),
              description |-> UnnamedPath]

RECURSIVE GraphFromEdges(_, _)
GraphFromEdges(g, es) ==
    IF es = <<>> THEN g
    ELSE GraphFromEdges(add_edge(g, Head(es)[1], Head(es)[2], PlainAttr), Tail(es))

NodePairs(n) == {p \in (0..(n - 1)) \X (0..(n - 1)) : p[1] < p[2]}

InitBfs ==
    /\ pc = "built"
    /\ intersections_gdf = <<>>
    /\ buildings_gdf = <<>>
    /\ all_graph_nodes_gdf = <<>>
    /\ row_idx = 1
    /\ node_coords_to_networkx_id = <<>>
    /\ networkx_id_to_details = <<>>
    /\ current_networkx_id = 0
    /\ line_idx = 0
    /\ noted = NothingNoted
    /\ \E n \in 1..MaxNodes : \E es \in SeqsUpTo(NodePairs(n), MaxEdges) :
          G = GraphFromEdges(add_nodes_from(EmptyGraph, [i \in 1..n |-> i - 1]), es)
    /\ NoSearch
    /\ NoKeys
    /\ NoQuery

NextBfs == BfsCall \/ BfsLoopStep \/ BfsExhausted \/ AnotherPath

SpecBfs == InitBfs /\ [][NextBfs]_vars


\* ---------------------------------------------------------------- claims
\* Ground truth for the path finder, from the edge set alone: the number of
\* hops of a shortest route from the frontier to target, -1 if there is none.
RECURSIVE Hops(_, _, _, _, _)
Hops(g, frontier, seen, target, d) ==
    IF target \in frontier THEN d
    ELSE IF frontier = {} THEN -1
    ELSE LET next == {n \in DOMAIN g.adj \ seen :
                         \E m \in frontier : {m, n} \in Edges(g)}
         IN Hops(g, next, seen \cup next, target, d + 1)

HopDistance(g, s, e) == Hops(g, {s}, {s}, e, 0)
Connected(g, s, e) == HopDistance(g, s, e) >= 0

BothInGraph == InGraph(G, start_node) /\ InGraph(G, end_node)

\* C1: for start # end, both in the graph and connected, bfs_shortest_path
\* returns a list that begins with start, ends with end and has exactly as
\* many edges as the minimum hop distance between them.
C1_ShortestPath ==
    (pc = "returned" /\ start_node # end_node /\ BothInGraph
       /\ Connected(G, start_node, end_node))
    => /\ result.tag = "list"
       /\ Len(result.items) >= 2
       /\ result.items[1] = start_node
       /\ result.items[Len(result.items)] = end_node
       /\ Len(result.items) - 1 = HopDistance(G, start_node, end_node)

\* a three-hop answer in a graph that has four nodes
C1_Witness ==
    /\ pc = "returned"
    /\ start_node # end_node
    /\ BothInGraph
    /\ result.tag = "list"
    /\ Len(result.items) = 4

\* C2 (as claimed): a start or end node that is absent from the graph gives
\* an outcome different from the None returned for two unconnected nodes.
C2_NodeNotFoundIsDistinct ==
    (pc = "returned" /\ start_node # end_node /\ ~BothInGraph)
    => result # NoneResult

\* C3: bfs_shortest_path(graph, s, s) returns [s], whatever the graph and
\* whether or not s has any edge, and never None.
C3_SameNode ==
    (pc = "returned" /\ start_node = end_node)
    => result = PathResult(<<start_node>>)

\* s = s answered for an isolated node of a graph with several nodes
C3_Witness ==
    /\ pc = "returned"
    /\ start_node = end_node
    /\ InGraph(G, start_node)
    /\ G.adj[start_node] = <<>>
    /\ Len(G.nodes) > 1
    /\ result = PathResult(<<start_node>>)

\* Every iteration of the while loop that does not return lowers this
\* measure, which is never negative.
BfsMeasure == Len(queue) + 2 * Cardinality(DOMAIN G.adj \ visited)

\* C4: for two nodes of the graph in different components the search ends
\* (each iteration lowers BfsMeasure) and it ends by returning None.
C4_NoPath ==
    [][ /\ (pc = "bfs_loop" /\ pc' = "bfs_loop") => BfsMeasure' < BfsMeasure
        /\ (pc = "bfs_loop" /\ pc' = "returned"
              /\ ~Connected(G, start_node, end_node))
           => result' = NoneResult ]_vars

\* None returned for two nodes of the graph after the loop ran
C4_Witness ==
    /\ pc = "returned"
    /\ start_node # end_node
    /\ BothInGraph
    /\ ~Connected(G, start_node, end_node)
    /\ G.adj[start_node] # <<>>
    /\ result = NoneResult


\* The graph exists from the first statement of build_network_graph on.
GraphBuilt == pc \in {"build_loop", "built"}

IndexIds == SeqRange(DictValues(node_coords_to_networkx_id))

\* C5: the graph never has an edge from a node to itself; the two ends of
\* every edge are the node ids that the mapping gives for the first and the
\* last coordinate key of the segment stored on it; and the edges are exactly
\* the pairs asked for by segments with two resolved, distinct ends, so a
\* segment with an unresolved end or with both ends on one node adds none.
C5_NoSelfLoopNoUnresolved ==
    GraphBuilt =>
      /\ \A e \in Edges(G) : Cardinality(e) = 2 /\ e \subseteq IndexIds
      /\ \A n \in DOMAIN G.adj : n \notin SeqRange(G.adj[n])
      /\ \A e \in Edges(G) :
            LET cs == G.data[e].geometry.coords
                u == DictGet(node_coords_to_networkx_id, CoordsKey(cs[1]))
                v == DictGet(node_coords_to_networkx_id, CoordsKey(cs[Len(cs)]))
            IN u # None /\ v # None /\ e = {u, v}
      /\ Edges(G) = DOMAIN noted.last

\* a finished graph with an edge, built from input of which at least one
\* segment had to be dropped
C5_Witness ==
    /\ pc = "built"
    /\ noted.dropped > 0
    /\ Edges(G) # {}

\* C6: every node id of the index is a node of the graph, with or without
\* edges, whatever line records have been processed (also none).
C6_AllIndexNodes ==
    GraphBuilt => /\ IndexIds \subseteq DOMAIN G.adj
                  /\ IndexIds \subseteq SeqRange(G.nodes)

\* a finished graph in which one node has an edge and another has none
C6_Witness ==
    /\ pc = "built"
    /\ Edges(G) # {}
    /\ \E n \in IndexIds : InGraph(G, n) /\ G.adj[n] = <<>>

\* C7: for every pair of nodes that segments were resolved to, the graph
\* holds one edge (each end lists the other once) and its description and
\* geometry are those of the segment processed last for that pair.
C7_LastWriteWins ==
    GraphBuilt =>
      \A e \in DOMAIN noted.last :
         /\ e \in Edges(G)
         /\ G.data[e] = noted.last[e]
         /\ \A u \in e : \A v \in e \ {u} :
               Cardinality({i \in 1..Len(G.adj[u]) : G.adj[u][i] = v}) = 1

\* a pair written twice, the stored segment drawn from the higher node id
\* to the lower one
C7_Witness ==
    /\ pc = "built"
    /\ \E e \in DOMAIN noted.writes :
          /\ noted.writes[e] >= 2
          /\ LET cs == G.data[e].geometry.coords
             IN DictGet(node_coords_to_networkx_id, CoordsKey(cs[1])) >
                DictGet(node_coords_to_networkx_id, CoordsKey(cs[Len(cs)]))


\* The point records in the order prepare_graph_nodes meets them.
ConcatInput == intersections_gdf \o buildings_gdf

Prepared == pc \in {"prepare_loop", "prepared"}

\* the distinct coordinate keys of rows, in the order of their first row
RECURSIVE DistinctKeys(_, _)
DistinctKeys(rows, acc) ==
    IF rows = <<>> THEN acc
    ELSE DistinctKeys(Tail(rows),
                      IF CoordsKey(Head(rows).geometry) \in SeqRange(acc)
                      THEN acc ELSE Append(acc, CoordsKey(Head(rows).geometry)))

\* the first row of rows that has the coordinate key k
FirstRow(rows, k) ==
    rows[CHOOSE i \in 1..Len(rows) :
            /\ CoordsKey(rows[i].geometry) = k
            /\ \A j \in 1..(i - 1) : CoordsKey(rows[j].geometry) # k]

RowsDone == SubSeq(all_graph_nodes_gdf, 1, row_idx - 1)

\* C8: the i-th distinct coordinate key met so far has the id i-1 and the
\* next id equals the number of keys; when prepare_graph_nodes returns, the
\* keys are the distinct keys of intersections followed by buildings, in the
\* order of their first record.
C8_SequentialIds ==
    Prepared =>
      /\ [i \in 1..Len(node_coords_to_networkx_id) |->
             node_coords_to_networkx_id[i][1]] = DistinctKeys(RowsDone, <<>>)
      /\ \A i \in 1..Len(node_coords_to_networkx_id) :
             node_coords_to_networkx_id[i][2] = i - 1
      /\ current_networkx_id = Len(node_coords_to_networkx_id)
      /\ pc = "prepared" =>
            Len(node_coords_to_networkx_id) = Len(DistinctKeys(ConcatInput, <<>>))
            /\ \A i \in 1..Len(node_coords_to_networkx_id) :
                  node_coords_to_networkx_id[i][1] =
                     DistinctKeys(ConcatInput, <<>>)[i]

\* three records from both layers, the second one on the key of the first,
\* and the third one got the id 1
C8_Witness ==
    /\ pc = "prepared"
    /\ Len(intersections_gdf) > 0
    /\ Len(buildings_gdf) > 0
    /\ Len(ConcatInput) = 3
    /\ CoordsKey(ConcatInput[1].geometry) = CoordsKey(ConcatInput[2].geometry)
    /\ DictGet(node_coords_to_networkx_id, CoordsKey(ConcatInput[3].geometry)) = 1

\* C9: the node of every coordinate key carries the name and the unique id
\* of the first record met with that key, and the iteration for a record
\* whose key is already known changes neither mapping nor the next id.
C9_FirstRecordWins ==
    [][ /\ (pc' = "prepared") =>
             \A i \in 1..Len(node_coords_to_networkx_id') :
                LET k == node_coords_to_networkx_id'[i][1]
                    n == node_coords_to_networkx_id'[i][2]
                    first == FirstRow(ConcatInput', k)
                    d == DictAt(networkx_id_to_details', n)
                IN /\ d.geometry = first.geometry
                   /\ d.name = RowName(first, n)
                   /\ d.qgis_id = RowQgisId(first, n)
        /\ (pc = "prepare_loop" /\ row_idx' = row_idx + 1
              /\ DictHas(node_coords_to_networkx_id,
                         CoordsKey(all_graph_nodes_gdf[row_idx].geometry)))
           => UNCHANGED <<node_coords_to_networkx_id, networkx_id_to_details,
                          current_networkx_id>> ]_vars

\* two records on one key with different names and different geometries,
\* then a record of another key
C9_Witness ==
    /\ pc = "prepared"
    /\ Len(ConcatInput) = 3
    /\ ConcatInput[1].geometry # ConcatInput[2].geometry
    /\ CoordsKey(ConcatInput[1].geometry) = CoordsKey(ConcatInput[2].geometry)
    /\ RowName(ConcatInput[1], 0) # RowName(ConcatInput[2], 0)
    /\ Len(networkx_id_to_details) = 2
    /\ DictAt(networkx_id_to_details, 0).name = RowName(ConcatInput[1], 0)

IsBlank(c) == c.na \/ Strip(c.s) = <<>>

\* C10 (as claimed): a node made from a record whose name is absent or blank
\* is named "Unnamed_Node_NX_{node_id}", one whose unique id is absent or
\* blank has the unique id "QGIS_ID_NX_{node_id}", and a non-blank value is
\* kept.
C10_PlaceholderForBlank ==
    pc = "prepared" =>
      \A i \in 1..Len(node_coords_to_networkx_id) :
         LET k == node_coords_to_networkx_id[i][1]
             n == node_coords_to_networkx_id[i][2]
             first == FirstRow(ConcatInput, k)
             d == DictAt(networkx_id_to_details, n)
         IN /\ d.name = IF IsBlank(first.Name) THEN UnnamedPrefix \o Str(n)
                        ELSE Strip(first.Name.s)
            /\ d.qgis_id = IF IsBlank(first.id) THEN QgisIdPrefix \o Str(n)
                           ELSE Strip(first.id.s)


\* ----------------------------------------------- the coordinate key encoder
\* Coordinates and precisions handed to the encoder on its own.
CoordPairs == (-MaxCoord..MaxCoord) \X (-MaxCoord..MaxCoord)
Precisions == {COORD_PRECISION - 1, COORD_PRECISION, COORD_PRECISION + 1}

\* The key of a as prepare_graph_nodes computes it (line 35) and the key of b
\* as build_network_graph computes it for a segment end (lines 28-29), and
\* the other way round.
EncodeKeys ==
    /\ pc = "encode"
    /\ \E a \in CoordPairs, b \in CoordPairs, precision \in Precisions :
          /\ enc_in' = [a |-> a, b |-> b, precision |-> precision]
          /\ enc_out' = [node_a |-> CoordsKeyAt(a, precision),
                         node_b |-> CoordsKeyAt(b, precision),
                         edge_a |-> CoordsKeyAt(a, precision),
                         edge_b |-> CoordsKeyAt(b, precision)]
    /\ pc' = "encoded"
    /\ UNCHANGED <<nodeVars, graphVars, bfsVars, queryVars>>

InitKey ==
    /\ pc = "encode"
    /\ intersections_gdf = <<>>
    /\ buildings_gdf = <<>>
    /\ all_graph_nodes_gdf = <<>>
    /\ row_idx = 1
    /\ node_coords_to_networkx_id = <<>>
    /\ networkx_id_to_details = <<>>
    /\ current_networkx_id = 0
    /\ NoGraph
    /\ NoSearch
    /\ NoKeys
    /\ NoQuery

NextKey == EncodeKeys

SpecKey == InitKey /\ [][NextKey]_vars

\* round(x, precision) of Python as a count of 10^-precision: the float it
\* returns compares equal for -0.0 and 0.0.
RoundAt(x, precision) ==
    IF x < 0 THEN 0 - FormatFixedAt(x, precision).mag
    ELSE FormatFixedAt(x, precision).mag

SameRounded(a, b, precision) ==
    /\ RoundAt(a[1], precision) = RoundAt(b[1], precision)
    /\ RoundAt(a[2], precision) = RoundAt(b[2], precision)

\* C11 (as claimed): two coordinate pairs whose components are equal after
\* rounding to the precision have the same coordinate key, in node
\* construction and in edge endpoint resolution, also when a component
\* rounds to zero from the negative side.
C11_EqualRoundedEqualKey ==
    (pc = "encoded" /\ SameRounded(enc_in.a, enc_in.b, enc_in.precision))
    => /\ enc_out.node_a = enc_out.node_b
       /\ enc_out.edge_a = enc_out.edge_b
       /\ enc_out.node_a = enc_out.edge_b


\* --------------------------------------------------------- find_networkx_id
UpperLetters == <<"A","B","C","D","E","F","G","H","I","J","K","L","M",
                  "N","O","P","Q","R","S","T","U","V","W","X","Y","Z">>
LowerLetters == <<"a","b","c","d","e","f","g","h","i","j","k","l","m",
                  "n","o","p","q","r","s","t","u","v","w","x","y","z">>

LowerChar(c) ==
    IF \E i \in 1..26 : UpperLetters[i] = c
    THEN LowerLetters[CHOOSE i \in 1..26 : UpperLetters[i] = c]
    ELSE c

\* str.lower()
Lower(s) == [i \in 1..Len(s) |-> LowerChar(s[i])]

\* (variant: the id test folds case as the name test does)
FindTestIdNoCase(details, stripped_identifier, by) ==
    IF by = "id" THEN Lower(details.qgis_id) = Lower(stripped_identifier)
    ELSE IF by = "name"
         THEN Lower(details.name) = Lower(stripped_identifier)
         ELSE FALSE

\* (variant: line 24 lowers the stored name only)
FindTestNameHalfLower(details, stripped_identifier, by) ==
    IF by = "id" THEN details.qgis_id = stripped_identifier
    ELSE IF by = "name"
         THEN Lower(details.name) = stripped_identifier
         ELSE FALSE

\* lines 18-25: does the node with these details answer the search?
FindTest(details, stripped_identifier, by) ==
    IF by = "id" THEN details.qgis_id = stripped_identifier
    ELSE IF by = "name"
         THEN Lower(details.name) = Lower(stripped_identifier)
         ELSE FALSE

\* (variant: the loop keeps the last node that answers)
RECURSIVE FindLoopLast(_, _, _)
FindLoopLast(items, stripped_identifier, by) ==
    IF items = <<>> THEN None
    ELSE IF FindLoopLast(Tail(items), stripped_identifier, by) # None
         THEN FindLoopLast(Tail(items), stripped_identifier, by)
         ELSE IF FindTest(Head(items)[2], stripped_identifier, by)
              THEN Head(items)[1] ELSE None

\* lines 16-26: the loop over details_dict.items(), which returns at the
\* first node that answers
RECURSIVE FindLoop(_, _, _)
FindLoop(items, stripped_identifier, by) ==
    IF items = <<>> THEN None
    ELSE IF FindTest(Head(items)[2], stripped_identifier, by)
         THEN Head(items)[1]
         ELSE FindLoop(Tail(items), stripped_identifier, by)

\* The whole function
find_networkx_id(ident, details_dict, by) ==
    FindLoop(details_dict, Strip(ident), by)

\* What an operator may type.
IdentValues == {<<"a">>, <<" ", "A", " ">>, <<"b">>, <<"B">>, <<>>, <<"x">>,
                QgisIdPrefix \o <<"0">>}
SearchModes == {"id", "name"}

\* One call of find_networkx_id on the node details of the run
FindCall ==
    /\ pc = "built"
    /\ \E ident \in IdentValues, by \in SearchModes :
          /\ identifier' = ident
          /\ search_by' = by
          /\ found' = find_networkx_id(ident, networkx_id_to_details, by)
    /\ pc' = "resolved"
    /\ UNCHANGED <<nodeVars, graphVars, bfsVars, encVars,
                   start_id_str, end_id_str, printed>>

\* The caller has the answer and may ask again
FindAgain ==
    /\ pc = "resolved"
    /\ pc' = "built"
    /\ identifier' = <<>>
    /\ search_by' = "id"
    /\ found' = None
    /\ UNCHANGED <<nodeVars, graphVars, bfsVars, encVars,
                   start_id_str, end_id_str, printed>>

\* find_networkx_id on the node details prepare_graph_nodes returns for
\* every frame of at most MaxRows records on distinct coordinate keys; the
\* graph is the one build_network_graph returns for no line record.
InitFind ==
    /\ pc = "built"
    /\ \E rows \in SeqsUpTo(PointRows, MaxRows) :
          /\ Len(rows) > 0
          /\ \A i, j \in 1..Len(rows) :
                i # j => CoordsKey(rows[i].geometry) # CoordsKey(rows[j].geometry)
          /\ intersections_gdf = rows
    /\ buildings_gdf = <<>>
    /\ all_graph_nodes_gdf = CombinedFrame(intersections_gdf, buildings_gdf)
    /\ row_idx = Len(all_graph_nodes_gdf) + 1
    /\ node_coords_to_networkx_id =
          prepare_graph_nodes(intersections_gdf, buildings_gdf)[1]
    /\ networkx_id_to_details =
          prepare_graph_nodes(intersections_gdf, buildings_gdf)[2]
    /\ current_networkx_id = Len(node_coords_to_networkx_id)
    /\ line_idx = 0
    /\ G = build_network_graph(<<>>, node_coords_to_networkx_id)
    /\ noted = NothingNoted
    /\ NoSearch
    /\ NoKeys
    /\ NoQuery

NextFind == FindCall \/ FindAgain

SpecFind == InitFind /\ [][NextFind]_vars

\* The nodes (positions in the details mapping) that a search is meant to
\* answer with.
IdMatches == {i \in 1..Len(networkx_id_to_details) :
                 networkx_id_to_details[i][2].qgis_id = Strip(identifier)}
NameMatches == {i \in 1..Len(networkx_id_to_details) :
                   Lower(networkx_id_to_details[i][2].name) =
                      Lower(Strip(identifier))}
ModeMatches == IF search_by = "id" THEN IdMatches ELSE NameMatches

\* C12: in id mode a node is returned only if its stored unique id equals
\* the stripped input character for character; a stored id that differs from
\* the input in letter case only is not returned.
C12_IdExact ==
    (pc = "resolved" /\ search_by = "id")
    => /\ found # None =>
            /\ DictHas(networkx_id_to_details, found)
            /\ DictAt(networkx_id_to_details, found).qgis_id = Strip(identifier)
       /\ IdMatches = {} => found = None

\* "B" searched by id while a node has the unique id "b": not found
C12_Witness ==
    /\ pc = "resolved"
    /\ search_by = "id"
    /\ identifier = <<"B">>
    /\ \E i \in 1..Len(networkx_id_to_details) :
          networkx_id_to_details[i][2].qgis_id = <<"b">>
    /\ found = None

\* C13: in name mode the answer is a node whose stored name equals the
\* stripped input up to letter case, and it is None exactly when there is no
\* such node.
C13_NameNoCase ==
    (pc = "resolved" /\ search_by = "name")
    => /\ found = None <=> NameMatches = {}
       /\ found # None =>
            /\ DictHas(networkx_id_to_details, found)
            /\ Lower(DictAt(networkx_id_to_details, found).name) =
                  Lower(Strip(identifier))

\* " A " searched by name finds a node whose stored name is "a"
C13_Witness ==
    /\ pc = "resolved"
    /\ search_by = "name"
    /\ identifier = <<" ", "A", " ">>
    /\ found # None
    /\ DictAt(networkx_id_to_details, found).name = <<"a">>

\* C14: when several nodes answer the search, the first of them in the
\* order of the details mapping is returned, and that is the one with the
\* smallest node id.
C14_FirstMatch ==
    (pc = "resolved" /\ ModeMatches # {})
    => /\ \E i \in ModeMatches :
             /\ found = networkx_id_to_details[i][1]
             /\ \A j \in ModeMatches : i <= j
       /\ \A j \in ModeMatches : found <= networkx_id_to_details[j][1]

\* two nodes answer and the one with the smaller id is returned
C14_Witness ==
    /\ pc = "resolved"
    /\ Cardinality(ModeMatches) >= 2
    /\ found # None
    /\ \E j \in ModeMatches : found < networkx_id_to_details[j][1]


\* ----------------------------------- bfs_shortest_path as one computation
\* lines 15-25: the while loop run to its return
RECURSIVE BfsLoop(_, _, _, _)
BfsLoop(g, q, seen, goal) ==
    IF q = <<>> THEN NoneResult
    ELSE LET current_node == Head(q)[1]
             path == Head(q)[2]
         IN IF current_node = goal THEN PathResult(path)
            ELSE LET st == BfsNeighbors([queue |-> Tail(q), visited |-> seen],
                                        neighbors(g, current_node), path)
                 IN BfsLoop(g, st.queue, st.visited, goal)

\* The whole function
bfs_shortest_path(g, s, e) ==
    IF s = e THEN PathResult(<<s>>)
    ELSE IF ~InGraph(g, s) \/ ~InGraph(g, e) THEN NoneResult
    ELSE BfsLoop(g, <<(<<s, <<s>> >>)>>, {s}, e)

\* The loop taken step by step returns what the whole function returns.
BfsAgrees == pc = "returned" => result = bfs_shortest_path(G, start_node, end_node)

\* ------------------------------------------------------ find_and_print_path
\* What is printed, one record per message.
\* line 53
ArriveLine(details, i, nx_id) ==
    [kind |-> "arrive", step |-> i,
     name |-> DictAt(details, nx_id).name,
     qgis_id |-> DictAt(details, nx_id).qgis_id,
     coords |-> CoordsKey(DictAt(details, nx_id).geometry)]

\* (variant: every leg reports the edge between the first two nodes)
NarrateLegFirstEdge(g, details, path, i) ==
    IF has_edge(g, path[1], path[2])
    THEN [kind |-> "proceed",
          description |-> g.data[{path[1], path[2]}].description]
    ELSE [kind |-> "warning", description |-> <<>>]

\* lines 56-63: the message for the leg from path[i] to path[i + 1]
NarrateLeg(g, details, path, i) ==
    IF has_edge(g, path[i], path[i + 1])
    THEN [kind |-> "proceed",
          description |-> g.data[{path[i], path[i + 1]}].description]
    ELSE [kind |-> "warning", description |-> <<>>]

\* lines 49-63: the loop over the path from position i on
RECURSIVE Narrate(_, _, _, _)
Narrate(g, details, path, i) ==
    IF i > Len(path) THEN <<>>
    ELSE <<ArriveLine(details, i, path[i])>>
         \o (IF i < Len(path) THEN <<NarrateLeg(g, details, path, i)>> ELSE <<>>)
         \o Narrate(g, details, path, i + 1)

\* The whole function: what it prints and the call of bfs_shortest_path it
\* makes, if it makes one.
find_and_print_path(g, start_str, end_str, search_type, details) ==
    LET start_networkx_id == find_networkx_id(start_str, details, search_type)
        end_networkx_id == find_networkx_id(end_str, details, search_type)
        answer == bfs_shortest_path(g, start_networkx_id, end_networkx_id)
        quiet == [called |-> FALSE, s |-> None, e |-> None, answer |-> NotCalled]
    IN IF start_networkx_id = None
       THEN [printed |-> <<[kind |-> "start not found"]>>, bfs |-> quiet]
       ELSE IF end_networkx_id = None
       THEN [printed |-> <<[kind |-> "end not found"]>>, bfs |-> quiet]
       ELSE IF start_networkx_id = end_networkx_id
       THEN [printed |-> <<[kind |-> "same place"],
                           ArriveLine(details, 1, start_networkx_id)>>,
             bfs |-> quiet]
       ELSE [printed |->
                IF answer.tag = "list" /\ answer.items # <<>>
                THEN <<[kind |-> "path found",
                        ids |-> [i \in 1..Len(answer.items) |->
                                   DictAt(details, answer.items[i]).qgis_id]]>>
                     \o Narrate(g, details, answer.items, 1)
                ELSE <<[kind |-> "no path"]>>,
             bfs |-> [called |-> TRUE, s |-> start_networkx_id,
                      e |-> end_networkx_id, answer |-> answer]]

\* ------------------------------------------------------- main's query loop
Exit == <<"e", "x", "i", "t">>

\* what is typed at the search-type prompt
TypeInputs == {<<>>, <<"i", "d">>, <<"N", "a", "m", "e", " ">>, <<"x">>}

\* lines 39-48
SearchType(raw) ==
    LET user_input_for_search_type == Lower(Strip(raw))
    IN IF user_input_for_search_type = <<>>
          \/ user_input_for_search_type = <<"i", "d">>
       THEN "id"
       ELSE IF user_input_for_search_type = <<"n", "a", "m", "e">>
            THEN "name" ELSE "id"

\* lines 35-51: the query prompt is shown and the search type is read
MainPrompt ==
    /\ pc = "built"
    /\ \E raw \in TypeInputs : search_by' = SearchType(raw)
    /\ pc' = "start_input"
    /\ UNCHANGED <<nodeVars, graphVars, bfsVars, encVars,
                   identifier, found, start_id_str, end_id_str, printed>>

\* (variant: the search lower-cases the stored names in place)
MainStartInputNormalises ==
    /\ pc = "start_input"
    /\ \E raw \in IdentValues \cup {Exit} :
          LET START_IDENTIFIER == Strip(raw)
              start_networkx_id ==
                 find_networkx_id(START_IDENTIFIER, networkx_id_to_details, search_by)
          IN IF Lower(START_IDENTIFIER) = Exit
             THEN /\ pc' = "exit"
                  /\ UNCHANGED <<identifier, found, start_id_str,
                                 networkx_id_to_details>>
             ELSE /\ identifier' = START_IDENTIFIER
                  /\ found' = start_networkx_id
                  /\ networkx_id_to_details' =
                        IF search_by = "name"
                        THEN [i \in 1..Len(networkx_id_to_details) |->
                                <<networkx_id_to_details[i][1],
                                  [networkx_id_to_details[i][2]
                                      EXCEPT !.name = Lower(@)]>>]
                        ELSE networkx_id_to_details
                  /\ IF start_networkx_id = None
                     THEN UNCHANGED <<pc, start_id_str>>
                     ELSE /\ pc' = "end_input"
                          /\ start_id_str' = START_IDENTIFIER
    /\ UNCHANGED <<intersections_gdf, buildings_gdf, all_graph_nodes_gdf,
                   row_idx, node_coords_to_networkx_id, current_networkx_id,
                   graphVars, bfsVars, encVars,
                   search_by, end_id_str, printed>>

\* lines 54-68: one round of the input loop for the start node
MainStartInput ==
    /\ pc = "start_input"
    /\ \E raw \in IdentValues \cup {Exit} :
          LET START_IDENTIFIER == Strip(raw)
              start_networkx_id ==
                 find_networkx_id(START_IDENTIFIER, networkx_id_to_details, search_by)
          IN IF Lower(START_IDENTIFIER) = Exit
             THEN /\ pc' = "exit"
                  /\ UNCHANGED <<identifier, found, start_id_str>>
             ELSE /\ identifier' = START_IDENTIFIER
                  /\ found' = start_networkx_id
                  /\ IF start_networkx_id = None
                     THEN UNCHANGED <<pc, start_id_str>>
                     ELSE /\ pc' = "end_input"
                          /\ start_id_str' = START_IDENTIFIER
    /\ UNCHANGED <<nodeVars, graphVars, bfsVars, encVars,
                   search_by, end_id_str, printed>>

\* lines 71-84: one round of the input loop for the end node
MainEndInput ==
    /\ pc = "end_input"
    /\ \E raw \in IdentValues \cup {Exit} :
          LET END_IDENTIFIER == Strip(raw)
              end_networkx_id ==
                 find_networkx_id(END_IDENTIFIER, networkx_id_to_details, search_by)
          IN IF Lower(END_IDENTIFIER) = Exit
             THEN /\ pc' = "exit"
                  /\ UNCHANGED <<identifier, found, end_id_str>>
             ELSE /\ identifier' = END_IDENTIFIER
                  /\ found' = end_networkx_id
                  /\ IF end_networkx_id = None
                     THEN UNCHANGED <<pc, end_id_str>>
                     ELSE /\ pc' = "path_call"
                          /\ end_id_str' = END_IDENTIFIER
    /\ UNCHANGED <<nodeVars, graphVars, bfsVars, encVars,
                   search_by, start_id_str, printed>>

\* line 88: find_and_print_path, lines 1-72
FindAndPrintPath ==
    /\ pc = "path_call"
    /\ LET out == find_and_print_path(G, start_id_str, end_id_str, search_by,
                                      networkx_id_to_details)
       IN /\ printed' = out.printed
          /\ start_node' = out.bfs.s
          /\ end_node' = out.bfs.e
          /\ result' = out.bfs.answer
    /\ pc' = "returned"
    /\ UNCHANGED <<queue, visited, nodeVars, graphVars, encVars,
                   identifier, search_by, found, start_id_str, end_id_str>>

\* lines 91-94: the operator does not ask for another path
MainQuit ==
    /\ pc = "returned"
    /\ pc' = "exit"
    /\ UNCHANGED <<nodeVars, graphVars, bfsVars, encVars, queryVars>>

\* Point records of three places with keys of their own, and road lines
\* between them with descriptions of their own.
QueryPointRows ==
    {[geometry |-> <<-1, 0>>, Name |-> NaN, id |-> NaN],
     [geometry |-> <<0, 0>>, Name |-> Cell(<<"a">>), id |-> Cell(<<"b">>)],
     [geometry |-> <<0, 2>>, Name |-> Cell(<<" ", "A">>), id |-> Cell(<<>>)]}

QueryLineRows ==
    {[geometry |-> LineString(<<(<<-1, 0>>), (<<0, 0>>)>>),
      description |-> Cell(<<" ", "p">>)],
     [geometry |-> LineString(<<(<<0, 0>>), (<<0, 2>>)>>),
      description |-> NaN],
     [geometry |-> LineString(<<(<<-1, 0>>), (<<0, 2>>)>>),
      description |-> Cell(<<"q">>)]}

\* main lines 12-20 done: both construction functions have returned
InitQuery ==
    /\ pc = "built"
    /\ \E rows \in SeqsUpTo(QueryPointRows, MaxRows) :
          /\ Len(rows) > 0
          /\ intersections_gdf = rows
    /\ buildings_gdf = <<>>
    /\ all_graph_nodes_gdf = CombinedFrame(intersections_gdf, buildings_gdf)
    /\ row_idx = Len(all_graph_nodes_gdf) + 1
    /\ node_coords_to_networkx_id =
          prepare_graph_nodes(intersections_gdf, buildings_gdf)[1]
    /\ networkx_id_to_details =
          prepare_graph_nodes(intersections_gdf, buildings_gdf)[2]
    /\ current_networkx_id = Len(node_coords_to_networkx_id)
    /\ \E lines \in SeqsUpTo(QueryLineRows, MaxLines) :
          /\ line_idx = Len(lines)
          /\ G = build_network_graph(lines, node_coords_to_networkx_id)
    /\ noted = NothingNoted
    /\ NoSearch
    /\ NoKeys
    /\ NoQuery

NextQuery ==
    \/ MainPrompt
    \/ MainStartInput
    \/ MainEndInput
    \/ FindAndPrintPath
    \/ AnotherPath
    \/ MainQuit

SpecQuery == InitQuery /\ [][NextQuery]_vars

\* The descriptions that the narration reports, in the order printed.
ProceedLines == SelectSeq(printed, LAMBDA m : m.kind = "proceed")
WarningLines == SelectSeq(printed, LAMBDA m : m.kind = "warning")
ArriveLines == SelectSeq(printed, LAMBDA m : m.kind = "arrive")

Narrated == pc = "returned" /\ result.tag = "list"

\* C15: when find_and_print_path has narrated a path returned by
\* bfs_shortest_path, every consecutive pair of nodes of the path is joined
\* by an edge of the graph, the narration reports for each pair, in path
\* order, the description stored on that edge, and it never prints the
\* warning of the missing-edge branch.
C15_NarrationFollowsEdges ==
    Narrated =>
       LET path == result.items
       IN /\ \A i \in 1..(Len(path) - 1) : has_edge(G, path[i], path[i + 1])
          /\ Len(ProceedLines) = Len(path) - 1
          /\ \A i \in 1..(Len(path) - 1) :
                ProceedLines[i].description =
                   G.data[{path[i], path[i + 1]}].description
          /\ WarningLines = <<>>
          /\ Len(ArriveLines) = Len(path)
          /\ \A i \in 1..Len(path) :
                ArriveLines[i].qgis_id =
                   DictAt(networkx_id_to_details, path[i]).qgis_id

\* A path of three nodes has been narrated whose two legs carry different
\* descriptions.
C15_Witness ==
    /\ Narrated
    /\ Len(result.items) = 3
    /\ Len(ProceedLines) = 2
    /\ ProceedLines[1].description # ProceedLines[2].description

\* ------------------------------------------------------------ the whole run
\* main lines 16-17: no node was prepared, the run ends there
MainNoNodes ==
    /\ pc = "prepared"
    /\ node_coords_to_networkx_id = <<>>
    /\ pc' = "no_nodes"
    /\ UNCHANGED <<nodeVars, graphVars, bfsVars, encVars, queryVars>>

\* The point layers of a run: none at all, one place, and two layers where a
\* building lies on the key of an intersection.
MainLayers ==
    {<<(<<>>), (<<>>)>>,
     <<(<<PlainRow(<<0, 0>>)>>), (<<>>)>>,
     <<(<<PlainRow(<<0, 0>>)>>),
       (<<[geometry |-> <<0, 2>>, Name |-> Cell(<<" ", "A">>),
                                  id |-> Cell(<<"b", " ">>)],
          [geometry |-> <<1, 0>>, Name |-> Cell(<<"x">>), id |-> Cell(<<"B">>)]>>)>>}

\* main line 10: the three layers are loaded
InitMain ==
    /\ pc = "start"
    /\ \E layers \in MainLayers :
          /\ intersections_gdf = layers[1]
          /\ buildings_gdf = layers[2]
    /\ all_graph_nodes_gdf = <<>>
    /\ row_idx = 1
    /\ node_coords_to_networkx_id = <<>>
    /\ networkx_id_to_details = <<>>
    /\ current_networkx_id = 0
    /\ NoGraph
    /\ NoSearch
    /\ NoKeys
    /\ NoQuery

NextMain ==
    \/ PrepareCall
    \/ PrepareRow
    \/ PrepareReturn
    \/ MainNoNodes
    \/ BuildCall
    \/ BuildRow
    \/ BuildReturn
    \/ MainPrompt
    \/ MainStartInput
    \/ MainEndInput
    \/ FindAndPrintPath
    \/ AnotherPath
    \/ MainQuit

SpecMain == InitMain /\ [][NextMain]_vars

\* The steps that wait for nothing are taken; the steps that read the
\* operator's input or the next road line are not forced.
FairMain ==
    /\ SpecMain
    /\ WF_vars(PrepareCall)
    /\ WF_vars(PrepareRow)
    /\ WF_vars(PrepareReturn)
    /\ WF_vars(MainNoNodes)
    /\ WF_vars(BuildCall)
    /\ WF_vars(BuildReturn)
    /\ WF_vars(FindAndPrintPath)

EmptyInput == Len(CombinedFrame(intersections_gdf, buildings_gdf)) = 0

Aborted == pc = "no_nodes"

\* C16: in a run whose combined point input is empty, prepare_graph_nodes
\* returns two empty mappings, build_network_graph is never called (the
\* graph stays as it was before any call), no query prompt is shown and no
\* query is made, and the run ends in the no-nodes exit.
C16_EmptyInputAborts ==
    /\ [](EmptyInput =>
            /\ pc \in {"start", "prepared", "no_nodes"}
            /\ pc # "start" => /\ node_coords_to_networkx_id = <<>>
                               /\ networkx_id_to_details = <<>>
            /\ NoGraph
            /\ NoSearch
            /\ NoQuery)
    /\ (EmptyInput ~> Aborted)

\* The run on empty input has ended in the no-nodes exit.
C16_Witness == EmptyInput /\ Aborted

\* The order in which a search from s takes nodes off a first-in first-out
\* queue when the neighbours of each node are entered in stored adjacency
\* order: order[i]'s neighbours that are not in the order yet follow it.
RECURSIVE DequeueOrder(_, _, _)
DequeueOrder(g, order, i) ==
    IF i > Len(order) THEN order
    ELSE DequeueOrder(g,
                      order \o SelectSeq(g.adj[order[i]],
                                         LAMBDA v : v \notin SeqRange(order)),
                      i + 1)

\* The earliest node of the order that is adjacent to v.
FirstReachedFrom(g, s, v) ==
    LET order == DequeueOrder(g, <<s>>, 1)
        k == CHOOSE i \in 1..Len(order) :
                /\ has_edge(g, order[i], v)
                /\ \A j \in 1..(i - 1) : ~has_edge(g, order[j], v)
    IN order[k]

\* The paths of g from s to e with n nodes.
PathsOfLen(g, s, e, n) ==
    {q \in [1..n -> DOMAIN g.adj] :
        /\ q[1] = s
        /\ q[n] = e
        /\ \A i \in 1..(n - 1) : has_edge(g, q[i], q[i + 1])}

\* C17: the path that bfs_shortest_path returns is the one found first when
\* the neighbours of each node taken off the queue are explored in the
\* graph's stored adjacency order: each node of the path after the start was
\* first reached from the earliest-dequeued node adjacent to it; and the path
\* is a function of the graph and the two nodes asked for.
C17_FirstDiscoveredPath ==
    (pc = "returned" /\ result.tag = "list") =>
       LET path == result.items
       IN /\ \A i \in 2..Len(path) :
                path[i - 1] = FirstReachedFrom(G, start_node, path[i])
          /\ result = bfs_shortest_path(G, start_node, end_node)

\* A path has been returned while another path of the same length joins the
\* same two nodes.
C17_Witness ==
    /\ pc = "returned"
    /\ result.tag = "list"
    /\ Len(result.items) >= 3
    /\ \E q \in PathsOfLen(G, start_node, end_node, Len(result.items)) :
          q # result.items

\* C18: no step of the query loop (reading the search type, a call of
\* find_networkx_id for the start or the end node, the call of
\* find_and_print_path with the call of bfs_shortest_path in it, the question
\* for another path), whatever its outcome, changes the graph's nodes, edges
\* or edge attributes, the node-details mapping or the coordinate-key
\* mapping: they stay as construction left them.
C18_QueriesChangeNothing ==
    [][/\ G' = G
       /\ networkx_id_to_details' = networkx_id_to_details
       /\ node_coords_to_networkx_id' = node_coords_to_networkx_id]_vars

\* A query on a graph with edges has ended with no path between two nodes
\* that were both found.
C18_Witness ==
    /\ pc = "returned"
    /\ result = NoneResult
    /\ printed = <<[kind |-> "no path"]>>
    /\ Edges(G) # {}

AfterBuild == pc \in {"build_loop", "built", "start_input", "end_input",
                      "path_call", "returned", "exit"}

\* C19: once prepare_graph_nodes and then build_network_graph have run, the
\* nodes of the graph, the keys of the node-details mapping and the values
\* of the coordinate-key mapping are one and the same set; every node id
\* that find_networkx_id has returned is a node of the graph; and the two
\* nodes with which find_and_print_path has called bfs_shortest_path are
\* nodes of the graph.
C19_OneNodeSet ==
    AfterBuild =>
       /\ DOMAIN G.adj = DictKeys(networkx_id_to_details)
       /\ SeqRange(G.nodes) = DOMAIN G.adj
       /\ DictKeys(networkx_id_to_details) = IndexIds
       /\ \A s \in IdentValues, by \in SearchModes :
             LET nx_id == find_networkx_id(s, networkx_id_to_details, by)
             IN nx_id # None => InGraph(G, nx_id)
       /\ found # None => InGraph(G, found)
       /\ result # NotCalled => InGraph(G, start_node) /\ InGraph(G, end_node)

\* find_and_print_path has called bfs_shortest_path on an index in which a
\* building shares the coordinate key of an intersection.
C19_Witness ==
    /\ pc = "returned"
    /\ result # NotCalled
    /\ Len(all_graph_nodes_gdf) > Len(node_coords_to_networkx_id)

====
